---- MODULE Spec2Model ----
(***************************************************************************)
(* HamAlert -> Discord bridge (src/hamalert.py).                           *)
(*                                                                         *)
(* The model covers the supervisor loop of main(), the telnet session of   *)
(* telnet_listener() with its line classification, the record extractor    *)
(* build_message(), the de-duplication ledger (_last_posted_at,            *)
(* should_post, mark_posted) and the notifier send_discord_webhook().      *)
(*                                                                         *)
(* Python strings are sequences of one-character strings, so strip(),      *)
(* upper(), lower() and the key concatenation of _make_key are computed.   *)
(* Time is counted in whole ticks of the wall clock time.time().           *)
(***************************************************************************)
EXTENDS Integers, Sequences, FiniteSets, TLC

\* ------------------------------------------------------------ bounds
\* Largest clock value explored.
MaxTime == 2
\* Largest configured de-duplication window explored.
MaxWindow == 2
\* Longest time a webhook request takes (requests.post is bounded by timeout=10).
MaxSendDelay == 1

\* ------------------------------------------------------------ strings
\* A Python str is a sequence of characters.
W1AW == <<"W", "1", "A", "W">>
w1aw_sp == <<" ", "w", "1", "a", "w", " ">>
K1ABC == <<"K", "1", "A", "B", "C">>
B20m == <<"2", "0", "m">>
B20M == <<"2", "0", "M">>
CW == <<"C", "W">>
cw == <<"c", "w">>
Blank == <<" ">>
Empty == <<>>
QMark == <<"?">>
Unknown == <<"u", "n", "k", "n", "o", "w", "n">>
Bar == <<"|">>

\* str.upper() / str.lower() on one character of the alphabet used.
UpperChar(c) ==
  CASE c = "a" -> "A" [] c = "b" -> "B" [] c = "c" -> "C" [] c = "k" -> "K"
    [] c = "m" -> "M" [] c = "n" -> "N" [] c = "o" -> "O" [] c = "u" -> "U"
    [] c = "w" -> "W" [] OTHER -> c

LowerChar(c) ==
  CASE c = "A" -> "a" [] c = "B" -> "b" [] c = "C" -> "c" [] c = "K" -> "k"
    [] c = "M" -> "m" [] c = "N" -> "n" [] c = "O" -> "o" [] c = "U" -> "u"
    [] c = "W" -> "w" [] OTHER -> c

Upper(s) == [i \in 1..Len(s) |-> UpperChar(s[i])]
Lower(s) == [i \in 1..Len(s) |-> LowerChar(s[i])]

IsSpace(c) == c \in {" ", "\t", "\r", "\n"}

RECURSIVE LStrip(_)
LStrip(s) == IF s # <<>> /\ IsSpace(Head(s)) THEN LStrip(Tail(s)) ELSE s

RECURSIVE RStrip(_)
RStrip(s) ==
  IF s # <<>> /\ IsSpace(s[Len(s)]) THEN RStrip(SubSeq(s, 1, Len(s) - 1)) ELSE s

\* str.strip()
Strip(s) == RStrip(LStrip(s))

\* ------------------------------------------------------------ JSON values
\* A value of a parsed JSON object: a string, a number or null.  `n` is the
\* number, `s` the string; the unused field holds a neutral value.
JStr(s) == [t |-> "str", s |-> s, n |-> 0]
JNum(n) == [t |-> "num", s |-> <<>>, n |-> n]
None == [t |-> "null", s |-> <<>>, n |-> 0]

\* Decimal digits of a natural number, as str() renders an int.
Digit(k) == CASE k = 0 -> "0" [] k = 1 -> "1" [] k = 2 -> "2" [] k = 3 -> "3"
              [] k = 4 -> "4" [] k = 5 -> "5" [] k = 6 -> "6" [] k = 7 -> "7"
              [] k = 8 -> "8" [] OTHER -> "9"

RECURSIVE Digits(_)
Digits(n) == IF n < 10 THEN <<Digit(n)>> ELSE Digits(n \div 10) \o <<Digit(n % 10)>>

\* str(v)
PyStr(v) ==
  CASE v.t = "str" -> v.s
    [] v.t = "num" -> Digits(v.n)
    [] OTHER -> <<"N", "o", "n", "e">>

\* Python truth value of v (`if not v`).
Truthy(v) ==
  CASE v.t = "str" -> v.s # <<>>
    [] v.t = "num" -> v.n # 0
    [] OTHER -> FALSE

\* d.get(k): a dict is a function from its keys to values.
DictGet(d, k) == IF k \in DOMAIN d THEN d[k] ELSE None

\* get_first: the first present, non-blank value among keys, else default.
RECURSIVE get_first(_, _, _)
get_first(d, keys, default) ==
  IF keys = <<>> THEN default
  ELSE LET v == DictGet(d, Head(keys))
       IN IF v # None /\ Strip(PyStr(v)) # <<>> THEN v
          ELSE get_first(d, Tail(keys), default)

\* ------------------------------------------------------------ frequency / band
\* Megahertz values are integers in units of 0.0001 MHz (100 Hz), the
\* resolution of the band table; NoMhz is Python's None.
Scale == 10000
NoMhz == -1

IsDigit(c) == c \in {"0", "1", "2", "3", "4", "5", "6", "7", "8", "9"}
DigitVal(c) == CASE c = "0" -> 0 [] c = "1" -> 1 [] c = "2" -> 2 [] c = "3" -> 3
                 [] c = "4" -> 4 [] c = "5" -> 5 [] c = "6" -> 6 [] c = "7" -> 7
                 [] c = "8" -> 8 [] OTHER -> 9

\* Length of the run of digits of s starting at position i.
RECURSIVE DigitRun(_, _)
DigitRun(s, i) == IF i <= Len(s) /\ IsDigit(s[i]) THEN 1 + DigitRun(s, i + 1) ELSE 0

\* Value of the digits s[i..j] read as a natural number.
RECURSIVE NatOf(_, _, _)
NatOf(s, i, j) == IF j < i THEN 0 ELSE NatOf(s, i, j - 1) * 10 + DigitVal(s[j])

\* Value of the fraction digits s[i..j], in units of 1/Scale (later digits dropped).
FracOf(s, i, j) ==
  LET d(k) == IF i + k <= j THEN DigitVal(s[i + k]) ELSE 0
  IN d(0) * 1000 + d(1) * 100 + d(2) * 10 + d(3)

\* re.search(r"(\d+(?:\.\d+)?)", s): the first decimal number of s, scaled,
\* or NoMhz when s holds no digit.
FirstNumber(s) ==
  LET starts == {i \in 1..Len(s) : IsDigit(s[i])}
  IN IF starts = {} THEN NoMhz
     ELSE LET i == CHOOSE k \in starts : \A m \in starts : k <= m
              n == DigitRun(s, i)
              e == i + n
              f == IF e + 1 <= Len(s) /\ s[e] = "." THEN DigitRun(s, e + 1) ELSE 0
          IN NatOf(s, i, e - 1) * Scale
               + (IF f > 0 THEN FracOf(s, e + 1, e + f) ELSE 0)

\* _parse_mhz: numbers are taken as they are, strings by their first number;
\* a value >= 1000 is kilohertz and is divided by 1000.
_parse_mhz(val) ==
  IF val = None THEN NoMhz
  ELSE LET f == IF val.t = "num" THEN val.n * Scale ELSE FirstNumber(PyStr(val))
       IN IF f = NoMhz THEN NoMhz
          ELSE IF f >= 1000 * Scale THEN f \div 1000 ELSE f

ranges ==
  << <<1357, 1378, <<"2", "2", "0", "0", "m">> >>,
     <<4720, 4790, <<"6", "3", "0", "m">> >>,
     <<18000, 20000, <<"1", "6", "0", "m">> >>,
     <<35000, 40000, <<"8", "0", "m">> >>,
     <<53300, 54050, <<"6", "0", "m">> >>,
     <<70000, 73000, <<"4", "0", "m">> >>,
     <<101000, 101500, <<"3", "0", "m">> >>,
     <<140000, 143500, <<"2", "0", "m">> >>,
     <<180680, 181680, <<"1", "7", "m">> >>,
     <<210000, 214500, <<"1", "5", "m">> >>,
     <<248900, 249900, <<"1", "2", "m">> >>,
     <<280000, 297000, <<"1", "0", "m">> >>,
     <<500000, 540000, <<"6", "m">> >>,
     <<700000, 710000, <<"4", "m">> >>,
     <<1440000, 1480000, <<"2", "m">> >>,
     <<2190000, 2250000, <<"1", ".", "2", "5", "m">> >>,
     <<4200000, 4500000, <<"7", "0", "c", "m">> >>,
     <<9020000, 9280000, <<"3", "3", "c", "m">> >>,
     <<12400000, 13000000, <<"2", "3", "c", "m">> >> >>

\* _band_from_mhz: the label of the first range holding mhz, else "unknown".
\* _band_from_mhz with the range ends excluded.
_band_from_mhz_strict(mhz) ==
  LET hits == {i \in 1..Len(ranges) : ranges[i][1] < mhz /\ mhz < ranges[i][2]}
  IN IF hits = {} THEN Unknown
     ELSE ranges[CHOOSE i \in hits : \A j \in hits : i <= j][3]

_band_from_mhz(mhz) ==
  LET hits == {i \in 1..Len(ranges) : ranges[i][1] <= mhz /\ mhz <= ranges[i][2]}
  IN IF hits = {} THEN Unknown
     ELSE ranges[CHOOSE i \in hits : \A j \in hits : i <= j][3]

FreqKeys == <<"frequency", "freq", "frequencyMHz", "frequencyKhz">>

\* extract_band: an explicit band wins, else the band of the frequency.
extract_band(payload) ==
  LET band == Strip(PyStr(get_first(payload, <<"band", "bandName">>, JStr(Empty))))
      mhz == _parse_mhz(get_first(payload, FreqKeys, None))
  IN IF band # <<>> THEN band
     ELSE IF mhz # NoMhz THEN _band_from_mhz(mhz) ELSE Unknown

\* ------------------------------------------------------------ record extractor
sota_fields == {"summitName", "summitRef", "summitPoints", "summitHeight"}

\* HasSota asking for any one of the SOTA fields instead of all of them.
HasSota_any(d) == sota_fields \cap DOMAIN d # {}

\* Line 171: sota_fields.issubset(d.keys()).
HasSota(d) == sota_fields \subseteq DOMAIN d

\* build_message: None without a callsign, else the message with the
\* de-duplication identity (callsign, band, mode).  The message is kept as
\* its parts: the SOTA prefix and detail line are present iff msg.sota.
NoBuilt == [ok |-> FALSE, msg |-> [sota |-> FALSE, spotter |-> None,
                                     mhz |-> NoMhz, time |-> None],
            callsign |-> None, band |-> Empty, mode |-> Empty]

build_message(d) ==
  LET callsign == get_first(d, <<"fullCallsign", "callsign", "call">>, None)
      spotter == get_first(d, <<"spotter", "reporter", "deCallsign", "de">>, JStr(QMark))
      m0 == Strip(PyStr(get_first(d, <<"mode", "opMode", "modulation">>, JStr(QMark))))
      mode == IF m0 # <<>> THEN m0 ELSE QMark
      mhz == _parse_mhz(get_first(d, FreqKeys, None))
      band == extract_band(d)
      t == get_first(d, <<"time", "timeISO", "timestamp">>, None)
  IN IF ~Truthy(callsign) THEN NoBuilt
     ELSE [ok |-> TRUE,
           msg |-> [sota |-> HasSota(d), spotter |-> spotter,
                    mhz |-> mhz, time |-> t],
           callsign |-> callsign, band |-> band, mode |-> mode]

\* ------------------------------------------------------------ state
VARIABLES
  pc,                    \* where main() stands: "connect" (line 293), "login"
                         \* (189), "password" (191), "loop" (198), "sleep" (300)
  initialized,           \* telnet_listener's local: JSON mode confirmed
  requested_json,        \* telnet_listener's local: set/json was sent
  _last_posted_at,       \* the ledger: key -> time of the last mark_posted
  delivered,             \* history: identity -> completion times of its last
                         \* two successful deliveries
  DEDUP_WINDOW_SECONDS,  \* configuration, fixed at start
  DRY_RUN,               \* configuration, fixed at start
  now,                   \* time.time()
  setjson_sent,          \* history: set/json requests written in this session
  prompt_seen,           \* history: a prompt line was received in this session
  out,                   \* history: what the last step of the program did
  probe                  \* history: the last direct call of the ledger API

vars == <<pc, initialized, requested_json, _last_posted_at, delivered,
          DEDUP_WINDOW_SECONDS, DRY_RUN, now, setjson_sent, prompt_seen, out, probe>>

Times == 0..MaxTime
NoTime == -1

\* ------------------------------------------------------------ ledger
\* _make_key: "CALLSIGN|band|MODE" after strip and case folding.
_make_key(callsign, band, mode) ==
  Upper(Strip(callsign)) \o Bar \o Lower(Strip(band)) \o Bar \o Upper(Strip(mode))

\* The identity of a triple: its fields trimmed and case-folded, kept apart.
Norm(c, b, m) == <<Upper(Strip(c)), Lower(Strip(b)), Upper(Strip(m))>>

\* callsign.strip() raises AttributeError when the callsign is not a str; the
\* `if not callsign` test before it returns early for a falsy value.
KeyRaises(callsign) == Truthy(callsign) /\ callsign.t # "str"

\* _last_posted_at.get(key)
LedgerGet(key) ==
  IF key \in DOMAIN _last_posted_at THEN _last_posted_at[key] ELSE NoTime

\* should_post with the window test off by one (<= for <).
should_post_le(callsign, band, mode, t) ==
  IF ~Truthy(callsign) THEN TRUE
  ELSE LET key == _make_key(callsign.s, band, mode)
           last == LedgerGet(key)
       IN ~(last # NoTime /\ (t - last) <= DEDUP_WINDOW_SECONDS)

\* should_post: TRUE unless the key was marked less than a window ago.
should_post(callsign, band, mode, t) ==
  IF ~Truthy(callsign) THEN TRUE
  ELSE LET key == _make_key(callsign.s, band, mode)
           last == LedgerGet(key)
       IN ~(last # NoTime /\ (t - last) < DEDUP_WINDOW_SECONDS)

\* mark_posted keeping the later of the stored and the given timestamp.
mark_posted_keep_latest(callsign, band, mode, when) ==
  IF ~Truthy(callsign) THEN _last_posted_at
  ELSE LET key == _make_key(callsign.s, band, mode)
           last == LedgerGet(key)
       IN [k \in DOMAIN _last_posted_at \cup {key} |->
             IF k = key THEN (IF last > when THEN last ELSE when)
             ELSE _last_posted_at[k]]

\* mark_posted: the ledger after the call.
mark_posted(callsign, band, mode, when) ==
  IF ~Truthy(callsign) THEN _last_posted_at
  ELSE LET key == _make_key(callsign.s, band, mode)
       IN [k \in DOMAIN _last_posted_at \cup {key} |->
             IF k = key THEN when ELSE _last_posted_at[k]]

\* ------------------------------------------------------------ notifier
\* What requests.post does: a response with a status, or a RequestException.
Responses ==
  {[exc |-> FALSE, status |-> c] : c \in {199, 200, 204, 299, 300, 500}}
    \cup {[exc |-> TRUE, status |-> 0]}

\* send_discord_webhook: TRUE in dry-run mode and for a 2xx status.
send_discord_webhook(dry, resp) ==
  IF dry THEN TRUE
  ELSE IF resp.exc THEN FALSE
  ELSE (200 <= resp.status /\ resp.status < 300) \/ resp.status = 204

\* ------------------------------------------------------------ received lines
\* A received non-empty line is modelled by what the loop inspects: the marker
\* phrases its lower-cased text contains, and what json.loads makes of it.
\* The text of a JSON object holds the phrases its string values hold.
Markers == {"hello", "hamalert", "de hamalert", "hamalert >", "operation successful"}

\* `phrase in low`; "hamalert" is a substring of both prompt markers.
Contains(text, phrase) ==
  IF phrase = "hamalert"
  THEN text \cap {"hamalert", "de hamalert", "hamalert >"} # {}
  ELSE phrase \in text

NoDict == [x \in {} |-> None]

\* The spot objects received.
Spots ==
  { [callsign |-> JStr(W1AW), band |-> JStr(B20m), mode |-> JStr(CW)],
    [call |-> JStr(w1aw_sp), band |-> JStr(B20M), mode |-> JStr(cw)],
    [fullCallsign |-> JStr(K1ABC), frequency |-> JNum(7040)],
    [band |-> JStr(B20m), mode |-> JStr(CW)],
    [callsign |-> JNum(7), band |-> JStr(B20m)] }

\* The marker phrases found in a line of text, and in a line holding JSON.
Texts ==
  { {}, {"hello"}, {"hamalert"}, {"hello", "hamalert"}, {"de hamalert"},
    {"hamalert >"}, {"hello", "de hamalert"}, {"operation successful"},
    {"de hamalert", "operation successful"},
    {"hello", "hamalert", "operation successful"} }

ObjectTexts ==
  { {}, {"hello", "hamalert"}, {"de hamalert"}, {"operation successful"} }

\* json.loads: raises JSONDecodeError ("text"), gives a value that is no dict
\* ("nonobject"), or gives a dict.
Lines ==
  {[text |-> t, body |-> [k |-> k, d |-> NoDict]] :
     t \in Texts, k \in {"text", "nonobject"}}
    \cup {[text |-> t, body |-> [k |-> "object", d |-> d]] :
            t \in ObjectTexts, d \in Spots}

NoLine == [text |-> {}, body |-> [k |-> "none", d |-> NoDict]]

\* build_message(parsed) of every object received (line 244), computed once.
BuiltOf == [d \in Spots \cup {NoDict} |-> build_message(d)]
Built(d) == BuiltOf[d]

IsGreeting(text) == Contains(text, "hamalert") /\ Contains(text, "hello")
IsPrompt(text) == Contains(text, "de hamalert") \/ Contains(text, "hamalert >")
IsConfirm(text) == Contains(text, "operation successful")

\* WantsRequest without the requested_json guard.
WantsRequest_unguarded(text, req) == IsPrompt(text)

\* Skipped with the confirmation gate left out.
Skipped_never(init) == FALSE

\* ParseKind without the isinstance(parsed, dict) test.
ParseKind_anyJson(body) == IF body.k = "text" THEN "nonjson" ELSE "object"

\* Line 217: a prompt line asks for JSON mode unless that was already asked.
WantsRequest(text, req) == IsPrompt(text) /\ ~req

\* Lines 229-231: nothing is parsed until JSON mode is confirmed.
Skipped(init) == ~init

\* Lines 234-242: what json.loads and the isinstance test make of the line.
ParseKind(body) ==
  IF body.k = "text" THEN "nonjson"
  ELSE IF body.k # "object" THEN "nonobject"
  ELSE "object"

\* The loop body's chain of tests on one line, up to the call of should_post:
\* which branch takes the line.
Classify(line, init, req) ==
  IF IsGreeting(line.text) THEN "greeting"
  ELSE IF WantsRequest(line.text, req) THEN "request"
  ELSE IF IsConfirm(line.text) THEN "confirm"
  ELSE IF Skipped(init) THEN "ignored"
  ELSE IF ParseKind(line.body) # "object" THEN ParseKind(line.body)
  ELSE IF ~Built(line.body.d).ok THEN "rejected"
  ELSE "spot"

\* KeepaliveExc without the try/except around the write.
KeepaliveExc_raises(wok) == IF wok THEN "none" ELSE "OSError"

\* SetJsonExc with the write error swallowed.
SetJsonExc_swallowed(wok) == "none"

\* LedgerAfterSuppress refreshing the entry on every sighting.
LedgerAfterSuppress_refresh(built, when) ==
  mark_posted(built.callsign, built.band, built.mode, when)

\* LedgerAtConnect with a ledger that belongs to the session.
LedgerAtConnect_fresh == [k \in {} |-> 0]

\* LedgerAfterSend marking whatever the delivery returned.
LedgerAfterSend_always(ok, built, when) ==
  mark_posted(built.callsign, built.band, built.mode, when)

\* Lines 202-206: the keepalive write sits in try/except Exception: pass, so
\* no exception leaves it.
KeepaliveExc(wok) == "none"

\* Line 219: the set/json write is unguarded; a failing write raises.
SetJsonExc(wok) == IF wok THEN "none" ELSE "OSError"

\* Lines 250-251: should_post said no; the loop continues and the ledger
\* stays as it is.
LedgerAfterSuppress(built, when) == _last_posted_at

\* Line 28: the ledger is a module-level dict; telnet_listener starts a new
\* session without touching it.
LedgerAtConnect == _last_posted_at

\* The delivery history after a delivery attempt that returned ok at time
\* `when` (line 253: send_discord_webhook returned True).
DeliveredAfterSend(ok, built, when) ==
  IF ~ok THEN delivered
  ELSE LET id == Norm(built.callsign.s, built.band, built.mode)
           before == IF id \in DOMAIN delivered THEN delivered[id].last ELSE NoTime
       IN [i \in DOMAIN delivered \cup {id} |->
             IF i = id THEN [prev |-> before, last |-> when] ELSE delivered[i]]

\* Lines 253-254: the ledger after a delivery attempt that returned ok.
LedgerAfterSend(ok, built, when) ==
  IF ok THEN mark_posted(built.callsign, built.band, built.mode, when)
  ELSE _last_posted_at

\* main_except with only ConnectionRefusedError caught: anything else ends
\* the process.
main_except_refused_only(exc) ==
  IF exc = "ConnectionRefusedError" THEN "sleep" ELSE "exit"

\* main()'s except clauses: both log and fall through to the sleep.
main_except(exc) ==
  IF exc = "ConnectionRefusedError" THEN "sleep" ELSE "sleep"

NoOut == [ev |-> "start", line |-> NoLine, cls |-> "none", exc |-> "none",
          wrote |-> "none", wfail |-> FALSE, path |-> <<>>, key |-> Empty,
          wasInit |-> FALSE, wasReq |-> FALSE, firstPrompt |-> FALSE]

\* The last direct call of should_post / mark_posted, and the mark_posted call
\* most recently made before it (hasMark, mcallsign, mband, mmode, mt).
NoProbe == [op |-> "none", callsign |-> Empty, band |-> Empty, mode |-> Empty,
            t |-> 0, ret |-> FALSE, hasMark |-> FALSE, mcallsign |-> Empty,
            mband |-> Empty, mmode |-> Empty, mt |-> 0]

Init ==
  /\ pc = "connect"
  /\ initialized = FALSE
  /\ requested_json = FALSE
  /\ _last_posted_at = [k \in {} |-> 0]
  /\ delivered = [i \in {} |-> 0]
  /\ DEDUP_WINDOW_SECONDS = MaxWindow
  /\ DRY_RUN \in BOOLEAN
  /\ now = 0
  /\ setjson_sent = 0
  /\ prompt_seen = FALSE
  /\ out = NoOut
  /\ probe = NoProbe

\* ------------------------------------------------------------ actions
Event(ev, exc, wrote, wfail) ==
  [NoOut EXCEPT !.ev = ev, !.exc = exc, !.wrote = wrote, !.wfail = wfail,
                !.wasInit = initialized, !.wasReq = requested_json]

\* An exception leaves telnet_listener: the locals are gone and main()'s
\* except clause decides where the process goes.
Unwind(exc) ==
  /\ pc' = main_except(exc)
  /\ initialized' = FALSE
  /\ requested_json' = FALSE

\* telnetlib.Telnet(host, port, timeout=30): connected, refused, or another
\* error of the connection attempt.
Connect ==
  /\ pc = "connect"
  /\ \E r \in {"ok", "ConnectionRefusedError", "OSError"} :
       /\ IF r = "ok"
          THEN pc' = "login" /\ initialized' = FALSE /\ requested_json' = FALSE
          ELSE Unwind(r)
       /\ out' = Event("connect", IF r = "ok" THEN "none" ELSE r, "none", FALSE)
  /\ setjson_sent' = 0
  /\ prompt_seen' = FALSE
  /\ _last_posted_at' = LedgerAtConnect
  /\ UNCHANGED <<delivered, DEDUP_WINDOW_SECONDS, DRY_RUN, now, probe>>

\* read_until(b"login:") then write(username): the read or the write may raise.
Login ==
  /\ pc = "login"
  /\ \E r \in {"ok", "EOFError", "OSError"}, wok \in BOOLEAN :
       IF r # "ok"
       THEN Unwind(r) /\ out' = Event("login", r, "none", FALSE)
       ELSE IF ~wok
       THEN Unwind("OSError") /\ out' = Event("login", "OSError", "username", TRUE)
       ELSE /\ pc' = "password"
            /\ out' = Event("login", "none", "username", FALSE)
            /\ UNCHANGED <<initialized, requested_json>>
  /\ UNCHANGED <<_last_posted_at, delivered, DEDUP_WINDOW_SECONDS, DRY_RUN, now,
                 setjson_sent, prompt_seen, probe>>

\* read_until(b"password:") then write(password); then the locals are set.
Password ==
  /\ pc = "password"
  /\ \E r \in {"ok", "EOFError", "OSError"}, wok \in BOOLEAN :
       IF r # "ok"
       THEN Unwind(r) /\ out' = Event("password", r, "none", FALSE)
       ELSE IF ~wok
       THEN Unwind("OSError") /\ out' = Event("password", "OSError", "password", TRUE)
       ELSE /\ pc' = "loop"
            /\ initialized' = FALSE
            /\ requested_json' = FALSE
            /\ out' = Event("password", "none", "password", FALSE)
  /\ UNCHANGED <<_last_posted_at, delivered, DEDUP_WINDOW_SECONDS, DRY_RUN, now,
                 setjson_sent, prompt_seen, probe>>

\* read_until(b"\n", timeout=30) returned nothing: the NOP keepalive is
\* written inside try/except Exception: pass, so a failing write is ignored.
Idle ==
  /\ pc = "loop"
  /\ \E wok \in BOOLEAN :
       LET e == KeepaliveExc(wok)
       IN /\ IF e = "none"
             THEN UNCHANGED <<pc, initialized, requested_json>>
             ELSE Unwind(e)
          /\ out' = Event("idle", e, "nop", ~wok)
  /\ UNCHANGED <<_last_posted_at, delivered, DEDUP_WINDOW_SECONDS, DRY_RUN, now,
                 setjson_sent, prompt_seen, probe>>

\* read_until raised: the connection was closed or reset.
ReadFault ==
  /\ pc = "loop"
  /\ \E r \in {"EOFError", "OSError"} :
       Unwind(r) /\ out' = Event("read", r, "none", FALSE)
  /\ UNCHANGED <<_last_posted_at, delivered, DEDUP_WINDOW_SECONDS, DRY_RUN, now,
                 setjson_sent, prompt_seen, probe>>

\* The history record of one iteration on a received line.
LineEvent(line, cls, exc, wrote, wfail, path, key) ==
  [ev |-> "line", line |-> line, cls |-> cls, exc |-> exc, wrote |-> wrote,
   wfail |-> wfail, path |-> path, key |-> key,
   wasInit |-> initialized, wasReq |-> requested_json,
   firstPrompt |-> IsPrompt(line.text) /\ ~prompt_seen]

\* Lines 244-254: extract, gate on the ledger, deliver, mark.
HandleSpot(line) ==
  LET built == Built(line.body.d)
      P2 == <<"build_message", "should_post">>
      P3 == <<"build_message", "should_post", "send_discord_webhook">>
      P4 == <<"build_message", "should_post", "send_discord_webhook", "mark_posted">>
  IN IF KeyRaises(built.callsign)
     THEN /\ Unwind("AttributeError")
          /\ out' = LineEvent(line, "typefault", "AttributeError", "none", FALSE, P2, Empty)
          /\ UNCHANGED <<_last_posted_at, delivered, now, setjson_sent>>
     ELSE LET key == _make_key(built.callsign.s, built.band, built.mode)
          IN IF ~should_post(built.callsign, built.band, built.mode, now)
             THEN /\ out' = LineEvent(line, "suppressed", "none", "none", FALSE, P2, key)
                  /\ _last_posted_at' = LedgerAfterSuppress(built, now)
                  /\ delivered' = delivered
                  /\ UNCHANGED <<pc, initialized, requested_json, now, setjson_sent>>
             ELSE \E resp \in Responses, dt \in 0..MaxSendDelay :
                    /\ now + dt <= MaxTime
                    /\ now' = now + dt
                    /\ LET ok == send_discord_webhook(DRY_RUN, resp)
                       IN /\ _last_posted_at' = LedgerAfterSend(ok, built, now + dt)
                          /\ delivered' = DeliveredAfterSend(ok, built, now + dt)
                          /\ out' = IF ok
                                    THEN LineEvent(line, "delivered", "none", "none",
                                                   FALSE, P4, key)
                                    ELSE LineEvent(line, "failed", "none", "none",
                                                   FALSE, P3, key)
                    /\ UNCHANGED <<pc, initialized, requested_json, setjson_sent>>

\* One iteration of the loop on a non-empty line (lines 209-254).
RecvLine ==
  /\ pc = "loop"
  /\ \E line \in Lines :
       LET cls == Classify(line, initialized, requested_json)
       IN /\ prompt_seen' = (prompt_seen \/ IsPrompt(line.text))
          /\ CASE cls = "request" ->
                    \E wok \in BOOLEAN :
                      LET e == SetJsonExc(wok)
                      IN /\ setjson_sent' = setjson_sent + 1
                         /\ IF e = "none"
                            THEN /\ requested_json' = TRUE
                                 /\ UNCHANGED <<pc, initialized>>
                            ELSE Unwind(e)
                         /\ out' = LineEvent(line, cls, e, "setjson", ~wok, <<>>, Empty)
                         /\ UNCHANGED <<_last_posted_at, delivered, now>>
               [] cls = "confirm" ->
                    /\ initialized' = TRUE
                    /\ out' = LineEvent(line, cls, "none", "none", FALSE, <<>>, Empty)
                    /\ UNCHANGED <<pc, requested_json, _last_posted_at, delivered, now, setjson_sent>>
               [] cls = "rejected" ->
                    /\ out' = LineEvent(line, cls, "none", "none", FALSE,
                                        <<"build_message">>, Empty)
                    /\ UNCHANGED <<pc, initialized, requested_json, _last_posted_at, delivered,
                                   now, setjson_sent>>
               [] cls = "spot" -> HandleSpot(line)
               [] OTHER ->
                    /\ out' = LineEvent(line, cls, "none", "none", FALSE, <<>>, Empty)
                    /\ UNCHANGED <<pc, initialized, requested_json, _last_posted_at, delivered,
                                   now, setjson_sent>>
  /\ UNCHANGED <<DEDUP_WINDOW_SECONDS, DRY_RUN, probe>>

\* time.sleep(args.reconnect_delay) returns; the while loop starts over.
Wake ==
  /\ pc = "sleep"
  /\ pc' = "connect"
  /\ out' = Event("wake", "none", "none", FALSE)
  /\ UNCHANGED <<initialized, requested_json, _last_posted_at, delivered, DEDUP_WINDOW_SECONDS,
                 DRY_RUN, now, setjson_sent, prompt_seen, probe>>

\* The wall clock advances.
Tick ==
  /\ now < MaxTime
  /\ now' = now + 1
  /\ UNCHANGED <<pc, initialized, requested_json, _last_posted_at, delivered,
                 DEDUP_WINDOW_SECONDS, DRY_RUN, setjson_sent, prompt_seen, out, probe>>

Next ==
  \/ Connect
  \/ Login
  \/ Password
  \/ Idle
  \/ ReadFault
  \/ RecvLine
  \/ Wake
  \/ Tick

Spec == Init /\ [][Next]_vars

FairSpec == Spec /\ WF_vars(Wake) /\ WF_vars(Connect)

\* ------------------------------------------------------------ the ledger alone
\* should_post and mark_posted called directly with explicit times, in any
\* order, as a test of the ledger would call them.
Triples ==
  { [c |-> W1AW, b |-> B20m, m |-> CW],
    [c |-> w1aw_sp, b |-> B20M, m |-> cw],
    [c |-> K1ABC, b |-> B20m, m |-> CW],
    [c |-> Blank, b |-> B20m, m |-> CW],
    [c |-> Empty, b |-> B20m, m |-> CW] }

LedgerInit ==
  /\ pc = "api"
  /\ initialized = FALSE
  /\ requested_json = FALSE
  /\ _last_posted_at = [k \in {} |-> 0]
  /\ delivered = [i \in {} |-> 0]
  /\ DEDUP_WINDOW_SECONDS \in 0..MaxWindow
  /\ DRY_RUN = FALSE
  /\ now = 0
  /\ setjson_sent = 0
  /\ prompt_seen = FALSE
  /\ out = NoOut
  /\ probe = NoProbe

CallMarkPosted ==
  /\ pc = "api"
  /\ \E tr \in Triples, t \in Times :
       /\ _last_posted_at' = mark_posted(JStr(tr.c), tr.b, tr.m, t)
       /\ delivered' = delivered
       /\ probe' = [op |-> "mark_posted", callsign |-> tr.c, band |-> tr.b,
                    mode |-> tr.m, t |-> t, ret |-> FALSE, hasMark |-> TRUE,
                    mcallsign |-> tr.c, mband |-> tr.b, mmode |-> tr.m, mt |-> t]
  /\ UNCHANGED <<pc, initialized, requested_json, DEDUP_WINDOW_SECONDS, DRY_RUN,
                 now, setjson_sent, prompt_seen, out>>

CallShouldPost ==
  /\ pc = "api"
  /\ \E tr \in Triples, t \in Times :
       probe' = [probe EXCEPT !.op = "should_post", !.callsign = tr.c,
                              !.band = tr.b, !.mode = tr.m, !.t = t,
                              !.ret = should_post(JStr(tr.c), tr.b, tr.m, t)]
  /\ UNCHANGED <<pc, initialized, requested_json, _last_posted_at, delivered,
                 DEDUP_WINDOW_SECONDS, DRY_RUN, now, setjson_sent, prompt_seen, out>>

LedgerNext ==
  \/ CallMarkPosted
  \/ CallShouldPost

LedgerSpec == LedgerInit /\ [][LedgerNext]_vars

\* ------------------------------------------------------------ claims

\* The should_post call of `probe` asks about the triple of the latest
\* mark_posted call, with nothing marked in between.
ProbeAfterOwnMark ==
  /\ probe.op = "should_post"
  /\ probe.hasMark
  /\ probe.callsign = probe.mcallsign
  /\ probe.band = probe.mband
  /\ probe.mode = probe.mmode

\* C1: for a triple with a non-empty callsign, should_post at time t after
\* mark_posted at time t0 is false when t - t0 < window and true when
\* t - t0 >= window; with no ledger entry for the key it is true.
C1_DedupWindow ==
  (probe.op = "should_post" /\ probe.callsign # Empty) =>
     /\ ProbeAfterOwnMark =>
          (probe.ret <=> (probe.t - probe.mt >= DEDUP_WINDOW_SECONDS))
     /\ _make_key(probe.callsign, probe.band, probe.mode) \notin DOMAIN _last_posted_at
          => probe.ret

\* C1 witness: a query exactly at the window boundary is allowed.
C1_Witness ==
  /\ ProbeAfterOwnMark
  /\ probe.callsign = W1AW
  /\ DEDUP_WINDOW_SECONDS = MaxWindow
  /\ probe.t - probe.mt = DEDUP_WINDOW_SECONDS
  /\ probe.ret

\* The identity of the spot of the last received line, as build_message gave it.
OutBuilt == Built(out.line.body.d)

\* C2: a failed delivery leaves the ledger as it was, so should_post for the
\* same identity is still true afterwards; the ledger changes only in a step
\* whose delivery succeeded, and only at that delivery's key.
C2_FailedDeliveryNoWrite ==
  /\ [](out.cls = "failed" =>
          should_post(OutBuilt.callsign, OutBuilt.band, OutBuilt.mode, now))
  /\ [][ /\ out'.cls = "failed" /\ out' # out => _last_posted_at' = _last_posted_at
         /\ _last_posted_at' # _last_posted_at =>
              /\ out'.cls = "delivered"
              /\ DOMAIN _last_posted_at' = DOMAIN _last_posted_at \cup {out'.key}
              /\ \A k \in DOMAIN _last_posted_at :
                   k # out'.key => _last_posted_at'[k] = _last_posted_at[k] ]_vars

\* C2 witness: a delivery failed for an identity the ledger does not hold.
C2_Witness ==
  /\ out.cls = "failed"
  /\ ~DRY_RUN
  /\ out.key \notin DOMAIN _last_posted_at
  /\ pc = "loop"

\* C3: a line received while the session is not confirmed reaches neither the
\* record extractor nor the ledger nor the notifier, and no step taken while
\* the session is not confirmed changes the ledger.
C3_NothingBeforeConfirmation ==
  /\ []((out.ev = "line" /\ ~out.wasInit) =>
          /\ out.path = <<>>
          /\ out.cls \in {"greeting", "request", "confirm", "ignored"})
  /\ [][~initialized => _last_posted_at' = _last_posted_at]_vars

\* C3 witness: a well-formed spot object with a callsign arrived before the
\* confirmation and was ignored.
C3_Witness ==
  /\ out.ev = "line"
  /\ ~out.wasInit
  /\ out.wasReq
  /\ out.line.body.k = "object"
  /\ out.line.text = {}
  /\ OutBuilt.ok
  /\ out.cls = "ignored"

\* C4: set/json is written at most once in a session.
C4_RequestAtMostOnce == setjson_sent <= 1

\* C4 witness: a further prompt line arrived after the request was sent.
C4_Witness ==
  /\ out.ev = "line"
  /\ IsPrompt(out.line.text)
  /\ ~IsGreeting(out.line.text)
  /\ out.wasReq
  /\ setjson_sent = 1
  /\ pc = "loop"

\* C5: the first line of a session that contains a prompt marker is answered
\* with set/json, whatever else the line contains.
C5_FirstPromptRequests ==
  (out.ev = "line" /\ out.firstPrompt) => out.wrote = "setjson"

\* C6: an exception leaving the session never ends the process: main() goes to
\* its sleep, the sleep is eventually followed by a new connection attempt, and
\* a new attempt starts only out of the sleep.
C6_RestartForever ==
  /\ [](out.exc # "none" => pc = "sleep")
  /\ [](pc \in {"connect", "login", "password", "loop", "sleep"})
  /\ (pc = "sleep") ~> (pc = "connect")
  /\ (pc = "connect") ~> (out.ev = "connect")
  /\ [][pc' = "connect" /\ pc # "connect" => pc = "sleep"]_vars

\* C6 witness: the delay after a session that had requested JSON mode is over
\* and main() is about to connect again.
C6_Witness ==
  /\ pc = "connect"
  /\ out.ev = "wake"
  /\ setjson_sent = 1

\* C7: once the session is confirmed, every received line that parses as a
\* JSON object is passed to the record extractor.
C7_ObjectsReachExtractor ==
  (out.ev = "line" /\ out.wasInit /\ out.line.body.k = "object") =>
     /\ out.path # <<>>
     /\ out.path[1] = "build_message"

\* C8: after confirmation a line that is no JSON, or JSON but no object,
\* reaches neither extractor, ledger nor notifier and the session stays
\* confirmed on the same connection; the one way such a line ends the session
\* is a transport error of the set/json write it triggered.
C8_ParseFaultSkipsLine ==
  /\ []((out.ev = "line" /\ out.wasInit /\ out.line.body.k \in {"text", "nonobject"}) =>
          /\ out.path = <<>>
          /\ out.cls \notin {"rejected", "suppressed", "delivered", "failed", "typefault"}
          /\ \/ pc = "loop" /\ initialized /\ out.exc = "none"
             \/ out.wrote = "setjson" /\ out.wfail)
  /\ []((out.ev = "line" /\ out.cls \in {"nonjson", "nonobject"}) =>
          pc = "loop" /\ initialized /\ out.exc = "none" /\ out.wrote = "none")
  /\ [][(out'.ev = "line" /\ out' # out /\ out'.line.body.k \in {"text", "nonobject"})
          => _last_posted_at' = _last_posted_at]_vars

\* C8 witness: a non-object JSON value was skipped in a confirmed session.
C8_Witness ==
  /\ out.ev = "line"
  /\ out.wasInit
  /\ out.cls = "nonobject"
  /\ pc = "loop"
  /\ initialized

\* C9: an empty read writes one keepalive and the session goes on reading on
\* the same connection with its flags as they were, even when the keepalive
\* write fails; the step changes nothing in the ledger.
C9_IdleKeepsSession ==
  /\ [](out.ev = "idle" =>
          /\ pc = "loop"
          /\ out.wrote = "nop"
          /\ out.exc = "none"
          /\ initialized = out.wasInit
          /\ requested_json = out.wasReq)
  /\ [][Idle => _last_posted_at' = _last_posted_at /\ setjson_sent' = setjson_sent]_vars

\* C9 witness: the keepalive write failed in a confirmed session, which goes on.
C9_Witness ==
  /\ out.ev = "idle"
  /\ out.wfail
  /\ initialized
  /\ requested_json
  /\ pc = "loop"

TransportExcs == {"ConnectionRefusedError", "OSError", "EOFError"}

\* C10 as claimed: every transport fault, a failed write of any kind included,
\* ends the session.
C10_EveryFaultUnwinds ==
  (out.wfail \/ out.exc \in TransportExcs) => pc = "sleep"

\* C10 as amended: every transport fault except a failed keepalive write ends
\* the session (its locals are gone, main() sleeps, and only a new connection
\* attempt follows); a failed keepalive write is swallowed and the session
\* goes on.
C10_FaultUnwindsExceptKeepalive ==
  /\ []((out.exc \in TransportExcs \/ (out.wfail /\ out.wrote # "nop")) =>
          pc = "sleep" /\ ~initialized /\ ~requested_json)
  /\ []((out.wfail /\ out.wrote = "nop") => pc = "loop")
  /\ [][pc = "sleep" => pc' \in {"sleep", "connect"}]_vars
  /\ [][pc' \in {"login", "password", "loop"} /\ pc' # pc =>
          pc \in {"connect", "login", "password"}]_vars

\* C10 witness: the set/json write failed and the session is over.
C10_Witness ==
  /\ out.wfail
  /\ out.wrote = "setjson"
  /\ out.exc = "OSError"
  /\ pc = "sleep"

\* ------------------------------------------------------------ two triples, one key
\* mark_posted for one triple on an empty ledger, then should_post for another.
A_bar_1 == <<"A", "|", "1">>
One_bar_2 == <<"1", "|", "2">>
JustA == <<"A">>
Just2 == <<"2">>

KeyTriples ==
  { [c |-> W1AW, b |-> B20m, m |-> CW],
    [c |-> w1aw_sp, b |-> B20M, m |-> cw],
    [c |-> K1ABC, b |-> B20m, m |-> CW],
    [c |-> A_bar_1, b |-> Just2, m |-> CW],
    [c |-> JustA, b |-> One_bar_2, m |-> CW] }

KeyInit ==
  /\ pc = "api"
  /\ initialized = FALSE
  /\ requested_json = FALSE
  /\ _last_posted_at = [k \in {} |-> 0]
  /\ delivered = [i \in {} |-> 0]
  /\ DEDUP_WINDOW_SECONDS \in 1..MaxWindow
  /\ DRY_RUN = FALSE
  /\ now = 0
  /\ setjson_sent = 0
  /\ prompt_seen = FALSE
  /\ out = NoOut
  /\ probe = NoProbe

KeyMark ==
  /\ pc = "api"
  /\ probe.op = "none"
  /\ \E tr \in KeyTriples, t \in Times :
       /\ _last_posted_at' = mark_posted(JStr(tr.c), tr.b, tr.m, t)
       /\ delivered' = delivered
       /\ probe' = [op |-> "mark_posted", callsign |-> tr.c, band |-> tr.b,
                    mode |-> tr.m, t |-> t, ret |-> FALSE, hasMark |-> TRUE,
                    mcallsign |-> tr.c, mband |-> tr.b, mmode |-> tr.m, mt |-> t]
  /\ UNCHANGED <<pc, initialized, requested_json, DEDUP_WINDOW_SECONDS, DRY_RUN,
                 now, setjson_sent, prompt_seen, out>>

KeyQuery ==
  /\ pc = "api"
  /\ probe.op = "mark_posted"
  /\ \E tr \in KeyTriples, t \in Times :
       probe' = [probe EXCEPT !.op = "should_post", !.callsign = tr.c,
                              !.band = tr.b, !.mode = tr.m, !.t = t,
                              !.ret = should_post(JStr(tr.c), tr.b, tr.m, t)]
  /\ UNCHANGED <<pc, initialized, requested_json, _last_posted_at, delivered,
                 DEDUP_WINDOW_SECONDS, DRY_RUN, now, setjson_sent, prompt_seen, out>>

KeyNext ==
  \/ KeyMark
  \/ KeyQuery

KeySpec == KeyInit /\ [][KeyNext]_vars

\* C11: two triples share a ledger entry exactly when they are equal after
\* trimming and case folding: a mark of one suppresses the other within the
\* window when their identities are equal, and never when they differ.
C11_IdentityIsNormalizedTriple ==
  (probe.op = "should_post" /\ probe.callsign # Empty /\ probe.mcallsign # Empty) =>
     IF Norm(probe.callsign, probe.band, probe.mode)
          = Norm(probe.mcallsign, probe.mband, probe.mmode)
     THEN probe.ret <=> (probe.t - probe.mt >= DEDUP_WINDOW_SECONDS)
     ELSE probe.ret

\* ------------------------------------------------------------ the extractor alone
\* build_message called directly on records built from every choice of the
\* three callsign aliases, with or without the other fields, and with every
\* subset of the SOTA fields.
Absent == [t |-> "absent", s |-> <<>>, n |-> 0]
AliasKeys == <<"fullCallsign", "callsign", "call">>
AliasVals == {Absent, None, JStr(Blank), JStr(W1AW), JStr(K1ABC), JNum(0)}

OtherFields ==
  [spotter |-> JStr(K1ABC), mode |-> JStr(cw), frequency |-> JNum(14070),
   time |-> JStr(B20m)]

SotaValues ==
  [summitName |-> JStr(K1ABC), summitRef |-> JStr(W1AW),
   summitPoints |-> JNum(10), summitHeight |-> JNum(2000)]

\* The dict with the alias values a (Absent: key missing), the other fields
\* if x, and the SOTA fields named in S.
MkDict(a, x, S) ==
  LET ak == {k \in DOMAIN a : a[k] # Absent}
      ok == IF x THEN DOMAIN OtherFields ELSE {}
  IN [k \in ak \cup ok \cup S |->
        IF k \in ak THEN a[k]
        ELSE IF k \in ok THEN OtherFields[k] ELSE SotaValues[k]]

ExtractInit ==
  /\ pc = "api"
  /\ initialized = FALSE
  /\ requested_json = FALSE
  /\ _last_posted_at = [k \in {} |-> 0]
  /\ delivered = [i \in {} |-> 0]
  /\ DEDUP_WINDOW_SECONDS = MaxWindow
  /\ DRY_RUN = FALSE
  /\ now = 0
  /\ setjson_sent = 0
  /\ prompt_seen = FALSE
  /\ out = NoOut
  /\ probe = NoProbe

CallBuildMessage ==
  /\ pc = "api"
  /\ probe.op = "none"
  /\ \E a \in [{"fullCallsign", "callsign", "call"} -> AliasVals],
        x \in BOOLEAN, S \in SUBSET sota_fields :
       probe' = [op |-> "build_message", alias |-> a, others |-> x, sota |-> S,
                 built |-> build_message(MkDict(a, x, S))]
  /\ UNCHANGED <<pc, initialized, requested_json, _last_posted_at, delivered,
                 DEDUP_WINDOW_SECONDS, DRY_RUN, now, setjson_sent, prompt_seen, out>>

ExtractNext == CallBuildMessage

ExtractSpec == ExtractInit /\ [][ExtractNext]_vars

\* An alias value that is present and not blank.
PresentNonBlank(v) == v # Absent /\ v # None /\ Strip(PyStr(v)) # <<>>

\* The aliases of a, in the order tried, whose value is present and not blank.
PresentAliases(a) == {i \in 1..Len(AliasKeys) : PresentNonBlank(a[AliasKeys[i]])}

\* C12: build_message gives no result exactly when no callsign alias holds a
\* present, non-blank value; otherwise the notification's callsign is the
\* first such value, whatever other fields the record has.
C12_RejectsExactlyWithoutCallsign ==
  probe.op = "build_message" =>
     LET P == PresentAliases(probe.alias)
     IN /\ probe.built.ok <=> (P # {})
        /\ P # {} =>
             probe.built.callsign =
               probe.alias[AliasKeys[CHOOSE i \in P : \A j \in P : i <= j]]

\* C14: a record with all SOTA fields gets the SOTA prefix and detail line,
\* a record lacking any one of them gets neither, and the SOTA fields never
\* decide whether the record is accepted.
C14_SotaNeedsAllFields ==
  probe.op = "build_message" =>
     /\ probe.built.ok = build_message(MkDict(probe.alias, probe.others, {})).ok
     /\ probe.built.ok => (probe.built.msg.sota <=> probe.sota = sota_fields)

\* C14 witness: one SOTA field is missing; the record is accepted without
\* the prefix.
C14_Witness ==
  /\ probe.op = "build_message"
  /\ probe.built.ok
  /\ probe.sota = sota_fields \ {"summitHeight"}
  /\ ~probe.built.msg.sota

\* ------------------------------------------------------------ the band mapping alone
\* _band_from_mhz called directly on both ends of every range, their
\* neighbours one step (0.0001 MHz) inside and outside, and the two
\* documented examples.
BandInputs ==
  UNION {{ranges[i][1] - 1, ranges[i][1], ranges[i][1] + 1,
          ranges[i][2] - 1, ranges[i][2], ranges[i][2] + 1} : i \in 1..Len(ranges)}
    \cup {0, 704 * (Scale \div 100), 74 * (Scale \div 10)}

BandInit ==
  /\ pc = "api"
  /\ initialized = FALSE
  /\ requested_json = FALSE
  /\ _last_posted_at = [k \in {} |-> 0]
  /\ delivered = [i \in {} |-> 0]
  /\ DEDUP_WINDOW_SECONDS = MaxWindow
  /\ DRY_RUN = FALSE
  /\ now = 0
  /\ setjson_sent = 0
  /\ prompt_seen = FALSE
  /\ out = NoOut
  /\ probe = NoProbe

CallBandFromMhz ==
  /\ pc = "api"
  /\ probe.op = "none"
  /\ \E mhz \in BandInputs :
       probe' = [op |-> "_band_from_mhz", mhz |-> mhz, ret |-> _band_from_mhz(mhz)]
  /\ UNCHANGED <<pc, initialized, requested_json, _last_posted_at, delivered,
                 DEDUP_WINDOW_SECONDS, DRY_RUN, now, setjson_sent, prompt_seen, out>>

BandNext == CallBandFromMhz

BandSpec == BandInit /\ [][BandNext]_vars

\* C13: the inclusive ranges are pairwise disjoint; a value inside a range
\* (ends included) maps to that range's label, a value outside all ranges
\* maps to "unknown"; 7.040 gives "40m" and 7.4 gives "unknown".
C13_BandMappingTotal ==
  /\ \A i, j \in 1..Len(ranges) :
       i < j => (ranges[i][2] < ranges[j][1] \/ ranges[j][2] < ranges[i][1])
  /\ probe.op = "_band_from_mhz" =>
       /\ \A i \in 1..Len(ranges) :
            (ranges[i][1] <= probe.mhz /\ probe.mhz <= ranges[i][2])
               => probe.ret = ranges[i][3]
       /\ (\A i \in 1..Len(ranges) :
            probe.mhz < ranges[i][1] \/ ranges[i][2] < probe.mhz)
               => probe.ret = Unknown
       /\ probe.mhz = 704 * (Scale \div 100) => probe.ret = <<"4", "0", "m">>
       /\ probe.mhz = 74 * (Scale \div 10) => probe.ret = Unknown

\* C13 witness: the upper end 7.3 of the 40m range maps to "40m".
C13_Witness ==
  /\ probe.op = "_band_from_mhz"
  /\ probe.mhz = 73 * (Scale \div 10)
  /\ probe.ret = <<"4", "0", "m">>

\* ------------------------------------------------------------ C15
\* C15: a line that build_message rejects or should_post suppresses makes
\* no delivery attempt and no ledger write, and the session goes on; a
\* suppressed repeat leaves the stored timestamp as it was.
C15_RejectSuppressNoEffect ==
  /\ [](out.ev = "line" /\ out.cls \in {"rejected", "suppressed"} =>
          /\ \A i \in 1..Len(out.path) :
               out.path[i] \notin {"send_discord_webhook", "mark_posted"}
          /\ out.exc = "none"
          /\ out.wrote = "none")
  /\ [][out'.ev = "line" /\ out'.cls \in {"rejected", "suppressed"} =>
          /\ _last_posted_at' = _last_posted_at
          /\ (out' # out => pc' = pc)]_vars

\* C15 witness: a repeat was suppressed at a time later than the stored
\* timestamp, which still holds the time of the delivery.
C15_Witness ==
  /\ out.ev = "line"
  /\ out.cls = "suppressed"
  /\ out.key \in DOMAIN _last_posted_at
  /\ _last_posted_at[out.key] < now

\* ------------------------------------------------------------ C16
\* mark_posted called again and again with explicit times in any order; the
\* call records the entry its key had before.
MarkInit ==
  /\ pc = "api"
  /\ initialized = FALSE
  /\ requested_json = FALSE
  /\ _last_posted_at = [k \in {} |-> 0]
  /\ delivered = [i \in {} |-> 0]
  /\ DEDUP_WINDOW_SECONDS = MaxWindow
  /\ DRY_RUN = FALSE
  /\ now = 0
  /\ setjson_sent = 0
  /\ prompt_seen = FALSE
  /\ out = NoOut
  /\ probe = NoProbe

MarkOnly ==
  /\ pc = "api"
  /\ \E tr \in Triples, t \in Times :
       /\ _last_posted_at' = mark_posted(JStr(tr.c), tr.b, tr.m, t)
       /\ delivered' = delivered
       /\ probe' = [op |-> "mark_posted", callsign |-> tr.c, band |-> tr.b,
                    mode |-> tr.m, t |-> t,
                    prev |-> LedgerGet(_make_key(tr.c, tr.b, tr.m))]
  /\ UNCHANGED <<pc, initialized, requested_json, DEDUP_WINDOW_SECONDS, DRY_RUN,
                 now, setjson_sent, prompt_seen, out>>

MarkNext == MarkOnly

MarkSpec == MarkInit /\ [][MarkNext]_vars

\* The key of the triple of the call recorded in `probe`.
ProbeKey == _make_key(probe.callsign, probe.band, probe.mode)

\* C16 as stated: after mark_posted, for every triple, an empty callsign
\* included, the ledger maps the normalized key to the given time.
C16_MarkAlwaysOverwrites ==
  probe.op = "mark_posted" =>
     /\ ProbeKey \in DOMAIN _last_posted_at
     /\ _last_posted_at[ProbeKey] = probe.t

\* C16: mark_posted with a non-empty callsign sets the entry of the
\* normalized key to the given time, whatever entry was there before, and
\* leaves every other entry as it was; with an empty callsign it writes
\* nothing.
C16_MarkOverwritesUnlessEmpty ==
  [][probe'.op = "mark_posted" =>
       LET key == _make_key(probe'.callsign, probe'.band, probe'.mode)
       IN IF probe'.callsign = Empty
          THEN _last_posted_at' = _last_posted_at
          ELSE /\ DOMAIN _last_posted_at' = DOMAIN _last_posted_at \cup {key}
               /\ _last_posted_at'[key] = probe'.t
               /\ \A k \in DOMAIN _last_posted_at \ {key} :
                    _last_posted_at'[k] = _last_posted_at[k]]_vars

\* C16 witness: a mark overwrote a later-dated entry of the same key while
\* another key's entry stayed.
C16_Witness ==
  /\ probe.op = "mark_posted"
  /\ probe.callsign = W1AW
  /\ probe.prev > probe.t
  /\ _last_posted_at[ProbeKey] = probe.t
  /\ _make_key(K1ABC, B20m, CW) \in DOMAIN _last_posted_at

\* ------------------------------------------------------------ C17
\* What the code's timeouts guarantee: sleep returns, the connection attempt
\* ends within its timeout=30, and the loop's read_until(b"\n", timeout=30)
\* returns within its timeout with a line, with nothing, or with an error.
\* The two prompt waits read_until(b"login:") and read_until(b"password:")
\* (lines 189 and 191) pass no timeout, so nothing makes them return while
\* the server stays connected and silent.
BoundedWaitSpec ==
  Spec /\ WF_vars(Wake) /\ WF_vars(Connect) /\ WF_vars(Idle \/ ReadFault \/ RecvLine)

\* C17: every blocking wait of a session ends: a session waiting for the
\* login prompt or for the password prompt leaves that wait, by going on or
\* by a fault that reaches the supervisor.
C17_EveryWaitEnds ==
  /\ (pc = "login") ~> (pc # "login")
  /\ (pc = "password") ~> (pc # "password")

\* ------------------------------------------------------------ C18
\* C18: whenever a session's confirmed flag is set, set/json has been sent
\* in that session; a line with "operation successful" that comes before
\* any prompt line does not confirm.
C18_ConfirmedOnlyAfterRequest ==
  initialized => (requested_json /\ setjson_sent >= 1)

\* ------------------------------------------------------------ C19
\* C19: two successful deliveries for the same normalized identity are at
\* least a window apart: the later one starts no earlier than a window after
\* the earlier one was completed, across session faults and reconnects; a
\* step that ends or starts a session leaves the ledger as it was.
C19_NoTwoDeliveriesWithinWindow ==
  /\ [](\A i \in DOMAIN delivered :
          delivered[i].prev # NoTime =>
             delivered[i].last - delivered[i].prev >= DEDUP_WINDOW_SECONDS)
  /\ [][\A i \in DOMAIN delivered :
          delivered'[i] # delivered[i] =>
             now - delivered[i].last >= DEDUP_WINDOW_SECONDS]_vars
  /\ [][pc' # pc => _last_posted_at' = _last_posted_at]_vars

\* C19 witness: an identity was just delivered a second time, exactly a
\* window after its first delivery.
C19_Witness ==
  /\ out.ev = "line"
  /\ out.cls = "delivered"
  /\ \E i \in DOMAIN delivered :
       /\ delivered[i].prev # NoTime
       /\ delivered[i].last = now
       /\ delivered[i].last - delivered[i].prev = DEDUP_WINDOW_SECONDS

\* ------------------------------------------------------------ C20
\* C20: a line that parses as a JSON object in a confirmed session, and that
\* the handshake tests let through, ends as rejected, suppressed, delivered
\* or failed, whatever the JSON types of its values; no exception leaves the
\* session and the session reads on.
C20_LineContentNeverEndsSession ==
  (/\ out.ev = "line"
   /\ out.wasInit
   /\ out.line.body.k = "object"
   /\ out.cls \notin {"greeting", "request", "confirm"}) =>
     /\ out.cls \in {"rejected", "suppressed", "delivered", "failed"}
     /\ out.exc = "none"
     /\ pc = "loop"

====
